---- MODULE Spec2Model ----
(***************************************************************************)
(* Klinex - Mac File Cleaner (src/main.py).                                *)
(*                                                                         *)
(* The model follows the Streamlit script: the directory walk of           *)
(* get_biggest_files, the concurrent classification stage of the           *)
(* "Start Scan and AI Analysis" handler, the selection checkboxes and the  *)
(* bulk / single "Move to Trash" handlers.  Path strings are sequences of  *)
(* one-character strings, so that str.startswith and os.path.join are      *)
(* computed character by character.                                        *)
(***************************************************************************)
EXTENDS Integers, Sequences, FiniteSets, TLC

\* ------------------------------------------------------------------ bounds
MaxUserFiles == 2       \* files directly in /Users
MaxK == 2               \* num_files is drawn from 1..MaxK
MaxScans == 2           \* calls of get_biggest_files in one behaviour
MaxPoolFiles == 6       \* files directly in /developer
MaxWords == 2           \* words of the oracle's category text

MB == 1024 * 1024
MinSizeChoices == {10, 11}                 \* min_size_mb (slider, MB)
SizeChoices == {10 * MB, 10 * MB + 1, 11 * MB + 1}

None == "none"

\* ------------------------------------------------------- strings and paths
Slash == <<"/">>
sLibrary == <<"L", "i", "b", "r", "a", "r", "y">>
sLibraries == <<"L", "i", "b", "r", "a", "r", "i", "e", "s">>
sDev == <<"d", "e", "v">>
sDeveloper == <<"d", "e", "v", "e", "l", "o", "p", "e", "r">>
sUsers == <<"U", "s", "e", "r", "s">>
sFoo == <<"F", "o", "o">>
sBig == <<"b", "i", "g">>
UserFileName(i) == <<"f", ToString(i)>>
PoolFileName(i) == <<"g", ToString(i)>>

\* str.startswith(prefix)
StartsWith(s, prefix) ==
    /\ Len(prefix) <= Len(s)
    /\ SubSeq(s, 1, Len(prefix)) = prefix

\* os.path.join(root, name) and str(Path(root) / name) on normalised paths
PathJoin(root, name) ==
    IF root # <<>> /\ root[Len(root)] = "/" THEN root \o name
    ELSE root \o Slash \o name

\* excluded_dirs_prefixes: the rules '/Library' and '/dev' of the list
excluded_dirs_prefixes == <<Slash \o sLibrary, Slash \o sDev>>

\* any(current_dir_path.startswith(prefix) for prefix in excluded_dirs_prefixes)
IsExcluded(current_dir_path) ==
    \E k \in 1..Len(excluded_dirs_prefixes) :
        StartsWith(current_dir_path, excluded_dirs_prefixes[k])

\* ----------------------------------------------------- the directory tree
\* What os.walk's scandir lists for each directory, in listing order.
pRoot == Slash
pLibrary == PathJoin(pRoot, sLibrary)
pLibraryFoo == PathJoin(pLibrary, sFoo)
pLibraries == PathJoin(pRoot, sLibraries)
pLibrariesFoo == PathJoin(pLibraries, sFoo)
pDeveloper == PathJoin(pRoot, sDeveloper)
pUsers == PathJoin(pRoot, sUsers)

AllDirs == {pRoot, pLibrary, pLibraryFoo, pLibraries, pLibrariesFoo, pDeveloper, pUsers}

ListDirs(d) ==
    CASE d = pRoot -> <<sLibrary, sLibraries, sDeveloper, sUsers>>
      [] d = pLibrary -> <<sFoo>>
      [] d = pLibraries -> <<sFoo>>
      [] OTHER -> <<>>

ListFiles(d) ==
    CASE d = pLibrary -> <<sBig>>
      [] d = pLibraryFoo -> <<sBig>>
      [] d = pLibrariesFoo -> <<sBig>>
      [] d = pDeveloper -> [i \in 1..MaxPoolFiles |-> PoolFileName(i)]
      [] d = pUsers -> [i \in 1..MaxUserFiles |-> UserFileName(i)]
      [] OTHER -> <<>>

FilesIn(d) == {PathJoin(d, ListFiles(d)[i]) : i \in 1..Len(ListFiles(d))}
UserFiles == FilesIn(pUsers)
FixedFiles == FilesIn(pLibrary) \cup FilesIn(pLibraryFoo) \cup FilesIn(pLibrariesFoo)
                \cup FilesIn(pDeveloper)
AllFiles == UserFiles \cup FixedFiles

\* status of a directory entry when the walk reaches it:
\*   "file"     is_file() is true and stat() succeeds
\*   "special"  is_file() is false (socket, fifo, dangling link)
\*   "denied"   stat() raises PermissionError
\*   "vanished" listed by scandir, deleted before is_file(): is_file() is false
\*   "absent"   not on disk (moved to trash or deleted after the scan)
\* A file that stat() can read has one of the sizes of SizeChoices.
FileStates ==
    [status : {"file"}, size : SizeChoices]
        \cup [status : {"special", "denied", "vanished"}, size : {11 * MB + 1}]
StartPaths == {pRoot, pLibrary, pUsers}

VARIABLES
    disk,                 \* [AllFiles -> [status, size]]: the file system's files
    denied_dirs,          \* directories whose scandir raises (os.walk skips them)
    cancel_requested,     \* the operator has asked for the running scan to stop
    pc,                   \* position of the script run
    start_path, num_files, min_size_mb,     \* arguments of get_biggest_files
    gemini_model,         \* "configured", or None without a usable API key
    walk_stack,           \* directories os.walk has still to yield, next first
    root,                 \* the directory of the current os.walk iteration
    dirs,                 \* dirs of the current iteration, after the in-place pruning
    dirs_to_skip,         \* dirs_to_skip of the current iteration
    files,                \* files of the current iteration not yet examined
    file_list,            \* file_list, in encounter order
    total_files_scanned,
    scans,                \* number of calls of get_biggest_files so far
    prev_result,          \* [known, value]: what the previous call returned, if any
    dispatch_i,           \* position of the dispatch loop in scanned_files
    futures,              \* futures, in submission order: [path, state, response, result]
    file_info_map,        \* future -> index of its file_info in scanned_files
    analyzed_files_temp,
    collected,            \* futures that as_completed has yielded
    messages,             \* what the last script run wrote about its trash moves
    rendered,             \* indices of scanned_files whose row the last run rendered
    scanned_files, scan_completed, analysis_completed,
    selected_files, space_liberated          \* st.session_state

fsVars == <<disk, denied_dirs, cancel_requested>>
argVars == <<start_path, num_files, min_size_mb, gemini_model>>
walkVars == <<walk_stack, root, dirs, dirs_to_skip, files, file_list, total_files_scanned>>
sessionVars == <<scanned_files, scan_completed, analysis_completed,
                 selected_files, space_liberated>>
uiVars == <<messages, rendered>>
classifyVars == <<dispatch_i, futures, file_info_map, analyzed_files_temp, collected>>
vars == <<fsVars, pc, argVars, walkVars, scans, prev_result, classifyVars, uiVars,
          sessionVars>>

\* ------------------------------------------------------------- sequences
RECURSIVE SelectSeqBy(_, _)
\* [x for x in s if x in keep], on a sequence of names
SelectSeqBy(s, keep) ==
    IF s = <<>> THEN <<>>
    ELSE (IF Head(s) \in keep THEN <<Head(s)>> ELSE <<>>) \o SelectSeqBy(Tail(s), keep)

Range(s) == {s[i] : i \in 1..Len(s)}

\* an unstable descending sort: a record goes before the records of its own size
RECURSIVE InsertDescUnstable(_, _)
InsertDescUnstable(sorted, x) ==
    IF sorted = <<>> THEN <<x>>
    ELSE IF Head(sorted).size > x.size
         THEN <<Head(sorted)>> \o InsertDescUnstable(Tail(sorted), x)
    ELSE <<x>> \o sorted

\* list.sort(key=size, reverse=True): stable, so equal sizes keep their order
RECURSIVE InsertDesc(_, _)
InsertDesc(sorted, x) ==
    IF sorted = <<>> THEN <<x>>
    ELSE IF Head(sorted).size >= x.size THEN <<Head(sorted)>> \o InsertDesc(Tail(sorted), x)
    ELSE <<x>> \o sorted

RECURSIVE SortBySizeDesc(_)
SortBySizeDesc(s) ==
    IF s = <<>> THEN <<>>
    ELSE InsertDesc(SortBySizeDesc(SubSeq(s, 1, Len(s) - 1)), s[Len(s)])

\* a slice that is one too long: file_list[:num_files + 1]
TakeOneMore(s, n) == SubSeq(s, 1, IF Len(s) < n + 1 THEN Len(s) ELSE n + 1)

\* file_list[:num_files]
Take(s, n) == SubSeq(s, 1, IF Len(s) < n THEN Len(s) ELSE n)

\* ------------------------------------------------------------------ Init
\* (a record not yet annotated has no text: the text that holds only None)
NoText == <<None>>
NewFileInfo(p, sz) == [path |-> p, size |-> sz, ai_suggestion |-> NoText, color_code |-> None]

FixedDisk(f) == [status |-> "file", size |-> 11 * MB + 1]

InitSession ==
    /\ scanned_files = <<>>
    /\ scan_completed = FALSE
    /\ analysis_completed = FALSE
    /\ selected_files = {}
    /\ space_liberated = 0

InitClassifyLocals ==
    /\ dispatch_i = 1
    /\ futures = <<>>
    /\ file_info_map = <<>>
    /\ analyzed_files_temp = <<>>
    /\ collected = {}

InitScan ==
    /\ \E user \in [UserFiles -> FileStates] :
          disk = [f \in AllFiles |-> IF f \in UserFiles THEN user[f] ELSE FixedDisk(f)]
    /\ denied_dirs \in SUBSET {pUsers}
    /\ cancel_requested = FALSE
    /\ pc = "idle"
    /\ start_path = pRoot /\ num_files = 1 /\ min_size_mb = 10
    /\ gemini_model = "configured"
    /\ walk_stack = <<>> /\ root = pRoot /\ dirs = <<>> /\ dirs_to_skip = <<>>
    /\ files = <<>>
    /\ file_list = <<>> /\ total_files_scanned = 0
    /\ scans = 0 /\ prev_result = [known |-> FALSE, value |-> <<>>]
    /\ InitClassifyLocals
    /\ messages = <<>> /\ rendered = {}
    /\ InitSession

\* ------------------------------------------------- get_biggest_files
\* The handler's reset (lines 324-328) and the call of get_biggest_files.
BeginScan(sp, k, m) ==
    /\ scan_completed' = FALSE
    /\ analysis_completed' = FALSE
    /\ scanned_files' = <<>>
    /\ selected_files' = {}
    /\ space_liberated' = 0
    /\ start_path' = sp /\ num_files' = k /\ min_size_mb' = m
    /\ UNCHANGED gemini_model
    /\ walk_stack' = <<sp>>
    /\ root' = sp /\ dirs' = <<>> /\ dirs_to_skip' = <<>> /\ files' = <<>>
    /\ file_list' = <<>> /\ total_files_scanned' = 0
    /\ scans' = scans + 1
    /\ messages' = <<>> /\ rendered' = {}
    /\ pc' = "walk"

StartScan ==
    /\ pc = "idle" /\ scans = 0
    /\ \E sp \in StartPaths, k \in 1..MaxK, m \in MinSizeChoices : BeginScan(sp, k, m)
    /\ prev_result' = [known |-> FALSE, value |-> <<>>]
    /\ UNCHANGED <<fsVars, classifyVars>>

\* A second scan of the same tree with the same arguments.
Rescan ==
    /\ pc = "scanned" /\ scans < MaxScans
    /\ BeginScan(start_path, num_files, min_size_mb)
    /\ prev_result' = [known |-> TRUE, value |-> scanned_files]
    /\ UNCHANGED <<fsVars, classifyVars>>

\* One iteration header of `for root, dirs, files in os.walk(...)`: os.walk lists
\* the next directory (skipping it silently when scandir fails: the directory
\* cannot be read, or the start path is no directory at all), the loop body
\* prunes dirs in place, and os.walk will descend into what is left of dirs.
SkipNames(top) ==
    SelectSeqBy(ListDirs(top), {d \in Range(ListDirs(top)) : IsExcluded(PathJoin(top, d))})

KeptNames(top) ==
    SelectSeqBy(ListDirs(top), Range(ListDirs(top)) \ Range(SkipNames(top)))

WalkDir ==
    /\ pc = "walk" /\ files = <<>> /\ walk_stack # <<>>
    /\ LET top == Head(walk_stack) IN
         IF top \in denied_dirs \/ top \notin AllDirs
         THEN /\ walk_stack' = Tail(walk_stack)
              /\ UNCHANGED <<root, dirs, dirs_to_skip, files>>
         ELSE /\ root' = top
              /\ dirs' = KeptNames(top)
              /\ dirs_to_skip' = SkipNames(top)
              /\ files' = ListFiles(top)
              /\ walk_stack' = [i \in 1..Len(KeptNames(top)) |-> PathJoin(top, KeptNames(top)[i])]
                                 \o Tail(walk_stack)
    /\ UNCHANGED <<fsVars, pc, argVars, file_list, total_files_scanned, scans,
                   prev_result, classifyVars, uiVars, sessionVars>>

\* the comparison with >= in place of >
AtLeastThreshold(size, m) == size >= m * 1024 * 1024

\* size > min_size_mb * 1024 * 1024
ExceedsThreshold(size, m) == size > m * 1024 * 1024

\* The loop body with the try/except around the whole loop instead of inside
\* it: the first PermissionError ends the walk.
ScanFileAborting ==
    /\ pc = "walk" /\ files # <<>>
    /\ LET file_path == PathJoin(root, Head(files))
           st == disk[file_path] IN
         /\ files' = IF st.status = "denied" THEN <<>> ELSE Tail(files)
         /\ walk_stack' = IF st.status = "denied" THEN <<>> ELSE walk_stack
         /\ IF st.status = "file"
            THEN /\ file_list' = IF ExceedsThreshold(st.size, min_size_mb)
                                 THEN Append(file_list, NewFileInfo(file_path, st.size))
                                 ELSE file_list
                 /\ total_files_scanned' = total_files_scanned + 1
            ELSE UNCHANGED <<file_list, total_files_scanned>>
    /\ UNCHANGED <<fsVars, pc, argVars, root, dirs, dirs_to_skip, scans,
                   prev_result, classifyVars, uiVars, sessionVars>>

\* One iteration of `for file in files` (lines 132-155).
ScanFile ==
    /\ pc = "walk" /\ files # <<>>
    /\ LET file_path == PathJoin(root, Head(files))
           st == disk[file_path] IN
         /\ files' = Tail(files)
         /\ IF st.status = "file"
            THEN /\ file_list' = IF ExceedsThreshold(st.size, min_size_mb)
                                 THEN Append(file_list, NewFileInfo(file_path, st.size))
                                 ELSE file_list
                 /\ total_files_scanned' = total_files_scanned + 1
            ELSE UNCHANGED <<file_list, total_files_scanned>>
    /\ UNCHANGED <<fsVars, pc, argVars, walk_stack, root, dirs, dirs_to_skip, scans,
                   prev_result, classifyVars, uiVars, sessionVars>>

\* the slice taken before the sort: the first K records seen, then sorted
ScanResultSliceFirst(fl, k) == SortBySizeDesc(Take(fl, k))

\* lines 161-163: sort and slice
ScanResult(fl, k) == Take(SortBySizeDesc(fl), k)

\* get_biggest_files returns; lines 332-333 store the result.
FinishScan ==
    /\ pc = "walk" /\ files = <<>> /\ walk_stack = <<>>
    /\ scanned_files' = ScanResult(file_list, num_files)
    /\ scan_completed' = TRUE
    /\ pc' = "scanned"
    /\ UNCHANGED <<fsVars, argVars, walkVars, scans, prev_result, classifyVars,
                   uiVars, analysis_completed, selected_files, space_liberated>>

NextScan == StartScan \/ Rescan \/ WalkDir \/ ScanFile \/ FinishScan

SpecScan == InitScan /\ [][NextScan]_vars

\* The operator asks for the scan to stop while get_biggest_files is running.
\* Nothing in lines 91-163 reads the request: the function has no cancellation
\* parameter and its loops have no check.
RequestCancel ==
    /\ pc = "walk" /\ ~cancel_requested
    /\ cancel_requested' = TRUE
    /\ UNCHANGED <<disk, denied_dirs, pc, argVars, walkVars, scans, prev_result,
                   classifyVars, uiVars, sessionVars>>

NextCancel == StartScan \/ RequestCancel \/ WalkDir \/ ScanFile \/ FinishScan

SpecCancel == InitScan /\ [][NextCancel]_vars
\* ------------------------------------------------ properties of the scan
Min(a, b) == IF a < b THEN a ELSE b
Threshold == min_size_mb * MB
Paths(s) == {s[i].path : i \in 1..Len(s)}
IndexOfPath(s, p) == CHOOSE i \in 1..Len(s) : s[i].path = p

\* the paths of the child directories of d
ChildDirs(d) == {PathJoin(d, ListDirs(d)[i]) : i \in 1..Len(ListDirs(d))}

\* P is R itself or lies beneath R: R followed by a path separator
AtOrBeneath(P, R) == P = R \/ StartsWith(P, PathJoin(R, <<>>))

MatchesRuleBySegments(P) ==
    \E k \in 1..Len(excluded_dirs_prefixes) : AtOrBeneath(P, excluded_dirs_prefixes[k])

\* d is the scan root or a directory below it that the exclusion test lets through
RECURSIVE NotPruned(_)
NotPruned(d) ==
    \/ d = start_path
    \/ \E p \in AllDirs : d \in ChildDirs(p) /\ ~IsExcluded(d) /\ NotPruned(p)

\* ... and that can be listed, like every directory between it and the root
RECURSIVE Listable(_)
Listable(d) ==
    /\ d \notin denied_dirs
    /\ \/ d = start_path
       \/ \E p \in AllDirs : d \in ChildDirs(p) /\ Listable(p)

\* the directory of the file f: f up to its last separator
DirOf(f) ==
    LET k == CHOOSE i \in 1..Len(f) : f[i] = "/" /\ \A j \in (i + 1)..Len(f) : f[j] # "/"
    IN IF k = 1 THEN pRoot ELSE SubSeq(f, 1, k - 1)

\* a regular file in a non-pruned directory under the root, larger than the threshold
Qualifying(f) ==
    /\ disk[f].status \in {"file", "denied"}
    /\ NotPruned(DirOf(f))
    /\ disk[f].size > Threshold

\* a qualifying file that the walk could read
QualifyingAccessible(f) ==
    /\ Qualifying(f)
    /\ disk[f].status = "file"
    /\ Listable(DirOf(f))

QualifyingFiles == {f \in AllFiles : Qualifying(f)}
AccessibleFiles == {f \in AllFiles : QualifyingAccessible(f)}

SortedDesc(s) == \A i, j \in 1..Len(s) : i < j => s[i].size >= s[j].size

\* C6 as claimed: in every iteration of the walk a directory is pruned if and only
\* if its path equals an exclusion rule or lies beneath one (whole path segments).
C6_SegmentPruning ==
    pc = "walk" =>
        \A d \in Range(dirs) \cup Range(dirs_to_skip) :
            (d \in Range(dirs_to_skip)) <=> MatchesRuleBySegments(PathJoin(root, d))

\* C11 as claimed: once cancellation has been requested during the walk, the next
\* step of the scan visits no further directory or file: it returns, as a normal
\* result, the ranked top-K of the qualifying files visited so far.
C11_CancelStopsWalk ==
    [][(cancel_requested /\ pc = "walk") =>
          /\ pc' = "scanned"
          /\ file_list' = file_list
          /\ total_files_scanned' = total_files_scanned
          /\ scanned_files' = ScanResult(file_list, num_files)]_vars

\* the regular files under the scan root that lie in no directory matching an
\* exclusion rule (the directory is a rule's path or lies beneath it)
CountableFiles ==
    {f \in AllFiles : /\ disk[f].status = "file"
                      /\ AtOrBeneath(f, start_path)
                      /\ ~MatchesRuleBySegments(DirOf(f))}

\* C20 as claimed: whatever the scan root, also one that matches an exclusion
\* rule itself, no file in or beneath a directory matching an exclusion rule is
\* collected, returned or counted in total_files_scanned.
C20_ExcludedNeverOpened ==
    /\ \A p \in Paths(file_list) \cup Paths(scanned_files) :
          ~MatchesRuleBySegments(DirOf(p))
    /\ total_files_scanned <= Cardinality(CountableFiles)

\* ---- the bounded top-K structure of the specification, held in first-seen order
MinSize(h) == CHOOSE m \in {h[i].size : i \in 1..Len(h)} :
                  \A i \in 1..Len(h) : m <= h[i].size
MaxSize(h) == CHOOSE m \in {h[i].size : i \in 1..Len(h)} :
                  \A i \in 1..Len(h) : m >= h[i].size
Without(h, i) == SubSeq(h, 1, i - 1) \o SubSeq(h, i + 1, Len(h))

\* the current minimum: of the held records of the smallest size, the one seen last
MinIndex(h) == CHOOSE i \in 1..Len(h) :
                   /\ h[i].size = MinSize(h)
                   /\ \A j \in (i + 1)..Len(h) : h[j].size # MinSize(h)

\* offer one record: insert while fewer than K are held, otherwise insert only a
\* record strictly larger than the current minimum, evicting that minimum
Offer(h, k, x) ==
    IF Len(h) < k THEN Append(h, x)
    ELSE IF x.size > MinSize(h) THEN Append(Without(h, MinIndex(h)), x)
    ELSE h

RECURSIVE TopK(_, _)
\* the structure after the records of fl have been offered in order
TopK(fl, k) ==
    IF fl = <<>> THEN <<>>
    ELSE Offer(TopK(SubSeq(fl, 1, Len(fl) - 1), k), k, fl[Len(fl)])

RECURSIVE Drain(_)
\* drain descending by size, ties in first-seen order
Drain(h) ==
    IF h = <<>> THEN <<>>
    ELSE LET i == CHOOSE j \in 1..Len(h) :
                      /\ h[j].size = MaxSize(h)
                      /\ \A l \in 1..(j - 1) : h[l].size # MaxSize(h)
         IN <<h[i]>> \o Drain(Without(h, i))

\* the records the code holds during the walk and the result it would return
HeldByCode == file_list
SameAsTopK == ScanResult(file_list, num_files) = Drain(TopK(file_list, num_files))

\* C21 as claimed: at every point of the walk the result of collect, stable sort
\* and slice is the sequence the bounded top-K structure yields for the files
\* encountered so far, and the code holds at most K candidate records.
C21_HeldAtMostK ==
    /\ SameAsTopK
    /\ Len(HeldByCode) <= num_files

\* C21 amended: the result is the sequence the bounded structure yields, and the
\* structure holds at most K records; the code itself holds every qualifying
\* record encountered, so at most as many as files were counted.
C21_SameResultAllHeld ==
    /\ SameAsTopK
    /\ Len(TopK(file_list, num_files)) <= num_files
    /\ Len(HeldByCode) <= total_files_scanned
    /\ pc = "scanned" => scanned_files = Drain(TopK(file_list, num_files))

\* a finished scan that met more qualifying files than K, two of them of one
\* size, and a later file larger than an earlier one
C21_Witness ==
    /\ pc = "scanned"
    /\ Len(file_list) > num_files
    /\ \E i, j \in 1..Len(file_list) : i < j /\ file_list[i].size = file_list[j].size
    /\ \E i, j \in 1..Len(file_list) : i < j /\ file_list[i].size < file_list[j].size
    /\ TopK(file_list, num_files) # Take(file_list, num_files)

\* C7 as claimed: the scan returns min(K, number of qualifying files) records, a
\* qualifying file being a regular file in a non-pruned directory under the root
\* whose size exceeds the threshold.
C7_LengthAllQualifying ==
    pc = "scanned" => Len(scanned_files) = Min(num_files, Cardinality(QualifyingFiles))

\* C7 amended: the scan returns min(K, n) records, n being the number of qualifying
\* files whose access succeeded (stat succeeded and every directory on the way
\* could be listed).
C7_LengthAccessible ==
    pc = "scanned" => Len(scanned_files) = Min(num_files, Cardinality(AccessibleFiles))

\* C7 witness: a finished scan cut to K records while a further qualifying file was
\* skipped because its stat was denied.
C7_Witness ==
    /\ pc = "scanned"
    /\ Len(scanned_files) = num_files
    /\ Cardinality(AccessibleFiles) > num_files
    /\ Cardinality(QualifyingFiles) > Cardinality(AccessibleFiles)

\* C8: the output is sorted by size in non-increasing order, records of equal size
\* are in the order in which the walk encountered them, and a second scan of the
\* unchanged tree returns the identical sequence.
C8_SortedStableDeterministic ==
    pc = "scanned" =>
        /\ SortedDesc(scanned_files)
        /\ \A i, j \in 1..Len(scanned_files) :
              (i < j /\ scanned_files[i].size = scanned_files[j].size) =>
                  IndexOfPath(file_list, scanned_files[i].path)
                      < IndexOfPath(file_list, scanned_files[j].path)
        /\ prev_result.known => scanned_files = prev_result.value

\* C8 witness: a second scan has finished and returned two records of equal size.
C8_Witness ==
    /\ pc = "scanned" /\ scans = 2
    /\ \E i, j \in 1..Len(scanned_files) :
          i < j /\ scanned_files[i].size = scanned_files[j].size

\* C9: every record of the output is strictly larger than the threshold and its
\* path lies under the scan root.
C9_AboveThresholdUnderRoot ==
    pc = "scanned" =>
        \A i \in 1..Len(scanned_files) :
            /\ scanned_files[i].size > Threshold
            /\ StartsWith(scanned_files[i].path, PathJoin(start_path, <<>>))
            /\ scanned_files[i].path # PathJoin(start_path, <<>>)

\* C9 witness: the walk examined a file of exactly the threshold size and left it
\* out of a non-empty output.
C9_Witness ==
    /\ pc = "scanned" /\ scanned_files # <<>>
    /\ \E f \in AllFiles :
          /\ disk[f].status = "file" /\ disk[f].size = Threshold
          /\ NotPruned(DirOf(f)) /\ Listable(DirOf(f))
          /\ f \notin Paths(scanned_files)

\* C10: whatever files and directories fail to be accessed, the walk is never
\* stuck, and what it returns is the ranked top-K of the qualifying files whose
\* access succeeded: sorted, of length min(K, n), made of such files only, and no
\* such file that was left out is larger than a returned one.
C10_ErrorsSkipped ==
    /\ pc = "walk" => ENABLED (WalkDir \/ ScanFile \/ FinishScan)
    /\ pc = "scanned" =>
          /\ SortedDesc(scanned_files)
          /\ Len(scanned_files) = Min(num_files, Cardinality(AccessibleFiles))
          /\ Cardinality(Paths(scanned_files)) = Len(scanned_files)
          /\ Paths(scanned_files) \subseteq AccessibleFiles
          /\ \A i \in 1..Len(scanned_files) :
                scanned_files[i].size = disk[scanned_files[i].path].size
          /\ \A f \in AccessibleFiles \ Paths(scanned_files) :
                \A i \in 1..Len(scanned_files) : scanned_files[i].size >= disk[f].size

\* C10 witness: a finished scan that met a file whose stat was denied, a vanished
\* entry and an unlistable directory went on to return later files.
C10_Witness ==
    /\ pc = "scanned"
    /\ \/ /\ start_path = pUsers /\ pUsers \notin denied_dirs
          /\ disk[PathJoin(pUsers, UserFileName(1))].status \in {"denied", "vanished"}
          /\ PathJoin(pUsers, UserFileName(2)) \in Paths(scanned_files)
       \/ /\ start_path = pRoot /\ pUsers \in denied_dirs
          /\ scanned_files # <<>>
\* ------------------------------------------ get_file_safety_suggestion
\* A response of the oracle: generate_content raised, or a text.  A text is a
\* sequence of lines and a line a sequence of tokens: the markers "Color:" and
\* "Reason:", the blank " ", and words.
Raised == [raised |-> TRUE, text |-> <<>>]
Text(t) == [raised |-> FALSE, text |-> t]

\* str.lower() on a token
Lower(t) ==
    CASE t \in {"Red", "RED"} -> "red"
      [] t = "Orange" -> "orange"
      [] t = "Yellow" -> "yellow"
      [] t \in {"Green", "GREEN"} -> "green"
      [] t = "Blue" -> "blue"
      [] t = "Evergreen" -> "evergreen"
      [] OTHER -> t

\* the colour names that occur in a lower-case token as substrings
ColoursIn(t) ==
    CASE t \in {"red", "orange", "yellow", "green"} -> {t}
      [] t = "evergreen" -> {"green"}
      [] OTHER -> {}

\* `colour in s` on a lower-case string
Contains(s, colour) == \E i \in 1..Len(s) : colour \in ColoursIn(s[i])

RECURSIVE LStrip(_)
LStrip(l) == IF l # <<>> /\ Head(l) = " " THEN LStrip(Tail(l)) ELSE l

RECURSIVE RStrip(_)
RStrip(l) == IF l # <<>> /\ l[Len(l)] = " " THEN RStrip(SubSeq(l, 1, Len(l) - 1)) ELSE l

\* str.strip() on one line
Strip(l) == RStrip(LStrip(l))

Blank(l) == \A i \in 1..Len(l) : l[i] = " "

RECURSIVE DropBlankHead(_)
DropBlankHead(t) == IF t # <<>> /\ Blank(Head(t)) THEN DropBlankHead(Tail(t)) ELSE t

RECURSIVE DropBlankTail(_)
DropBlankTail(t) ==
    IF t # <<>> /\ Blank(t[Len(t)]) THEN DropBlankTail(SubSeq(t, 1, Len(t) - 1)) ELSE t

\* response.text.strip(): line breaks are white space too
StripText(t) ==
    LET u == DropBlankTail(DropBlankHead(t)) IN
    [i \in 1..Len(u) |->
        IF i = 1 /\ i = Len(u) THEN Strip(u[i])
        ELSE IF i = 1 THEN LStrip(u[i])
        ELSE IF i = Len(u) THEN RStrip(u[i])
        ELSE u[i]]

\* the text again as one string, for the messages
RECURSIVE JoinLines(_)
JoinLines(t) ==
    IF t = <<>> THEN <<>>
    ELSE IF Len(t) = 1 THEN t[1]
    ELSE t[1] \o <<"\n">> \o JoinLines(Tail(t))

\* the lines with line.startswith(marker)
LinesWith(t, marker) == {i \in 1..Len(t) : t[i] # <<>> /\ t[i][1] = marker}
FirstLineWith(t, marker) ==
    t[CHOOSE i \in LinesWith(t, marker) : \A j \in LinesWith(t, marker) : i <= j]

\* line.split("Color:")[1]: from the first marker to the next one
AfterColor(l) ==
    LET later == {i \in 2..Len(l) : l[i] = "Color:"}
        stop == IF later = {} THEN Len(l) + 1
                ELSE CHOOSE i \in later : \A j \in later : i <= j
    IN SubSeq(l, 2, stop - 1)

\* line.split("Reason:", 1)[1]: everything after the first marker
AfterReason(l) == Tail(l)

\* color_match: None is the empty string here, both are false in `if`
ColorMatch(t) ==
    IF LinesWith(t, "Color:") = {} THEN <<>>
    ELSE LET c == Strip(AfterColor(FirstLineWith(t, "Color:")))
         IN [i \in 1..Len(c) |-> Lower(c[i])]

\* the reason taken without .strip()
ReasonMatchRaw(t) ==
    IF LinesWith(t, "Reason:") = {} THEN <<>>
    ELSE AfterReason(FirstLineWith(t, "Reason:"))

ReasonMatch(t) ==
    IF LinesWith(t, "Reason:") = {} THEN <<>>
    ELSE Strip(AfterReason(FirstLineWith(t, "Reason:")))

\* the else branch of lines 226-228 leaving color_code as the oracle's own text
UnparseableColourKept(color_match) ==
    IF Contains(color_match, "red") THEN "red"
    ELSE IF Contains(color_match, "orange") THEN "orange"
    ELSE IF Contains(color_match, "yellow") THEN "yellow"
    ELSE IF Contains(color_match, "green") THEN "green"
    ELSE color_match[1]

\* the if/elif chain with its tests in the opposite order
ColourOfGreenFirst(color_match) ==
    IF Contains(color_match, "green") THEN "green"
    ELSE IF Contains(color_match, "yellow") THEN "yellow"
    ELSE IF Contains(color_match, "orange") THEN "orange"
    ELSE IF Contains(color_match, "red") THEN "red"
    ELSE None

\* lines 218-228: the colour of a non-empty color_match, None when unparseable
ColourOf(color_match) ==
    IF Contains(color_match, "red") THEN "red"
    ELSE IF Contains(color_match, "orange") THEN "orange"
    ELSE IF Contains(color_match, "yellow") THEN "yellow"
    ELSE IF Contains(color_match, "green") THEN "green"
    ELSE None

\* lines 201-237; the result is (suggestion, color_code)
get_file_safety_suggestion(response) ==
    IF response.raised
    THEN [suggestion |-> <<"Gemini API Error: ", "e", ". Defaulting to uncertain.">>,
          color_code |-> "orange"]
    ELSE LET text_response == StripText(response.text)
             color_match == ColorMatch(text_response)
             reason_match == ReasonMatch(text_response)
         IN IF color_match # <<>> /\ reason_match # <<>>
            THEN IF ColourOf(color_match) # None
                 THEN [suggestion |-> reason_match, color_code |-> ColourOf(color_match)]
                 ELSE [suggestion |-> <<"AI output unparseable: ">> \o JoinLines(text_response),
                       color_code |-> "orange"]
            ELSE [suggestion |-> <<"AI output format mismatch: ">> \o JoinLines(text_response),
                  color_code |-> "orange"]

\* ------------------------------------------------ the classification stage
MAX_WORKERS == 5

WellFormed(colour) == Text(<<<<"Color:", " ", colour>>, <<"Reason:", " ", "test">>>>)

\* what the oracle may answer to one invocation
ClassifyResponses ==
    { Raised,
      WellFormed("Green"),
      WellFormed("Red"),
      WellFormed("Blue"),
      Text(<<<<"Reason:", " ", "test">>>>),
      Text(<<<<"Color:", " ">>, <<"Reason:", " ", "test">>>>) }

\* the existence check left out
ExistsUnchecked(p) == TRUE

\* Path(file_path_str).exists()
Exists(p) == disk[p].status # "absent"

EntryFile(i) == PathJoin(pUsers, UserFileName(i))

\* The state in which get_biggest_files has just returned n records of /Users.
InitClassify ==
    /\ \E n \in 1..MaxUserFiles :
          /\ file_list = [i \in 1..n |-> NewFileInfo(EntryFile(i), 11 * MB + 1)]
          /\ scanned_files = file_list
          /\ num_files = n
          /\ total_files_scanned = n
    /\ disk = [f \in AllFiles |-> FixedDisk(f)]
    /\ denied_dirs = {}
    /\ cancel_requested = FALSE
    /\ pc = "scanned"
    /\ start_path = pUsers /\ min_size_mb = 10
    /\ gemini_model = "configured"
    /\ walk_stack = <<>> /\ root = pUsers /\ dirs = <<>> /\ dirs_to_skip = <<>>
    /\ files = <<>>
    /\ scans = 1 /\ prev_result = [known |-> FALSE, value |-> <<>>]
    /\ InitClassifyLocals
    /\ messages = <<>> /\ rendered = {}
    /\ scan_completed = TRUE
    /\ analysis_completed = FALSE
    /\ selected_files = {}
    /\ space_liberated = 0

\* A file is deleted outside the application.
Vanish ==
    /\ pc \in {"scanned", "dispatch"}
    /\ \E f \in Paths(scanned_files) :
          /\ disk[f].status = "file"
          /\ disk' = [disk EXCEPT ![f].status = "absent"]
    /\ UNCHANGED <<denied_dirs, cancel_requested, pc, argVars, walkVars, scans,
                   prev_result, classifyVars,
                   uiVars, sessionVars>>

\* The display loop of a script run (lines 467-518) renders a row for every entry
\* whose file exists ...
Rows(sf, d) == {i \in 1..Len(sf) : d[sf[i].path].status # "absent"}

\* ... and drops the other entries' paths from the selection (line 477).
DisplayPass(sf, sel, d) ==
    sel \ {sf[i].path : i \in (1..Len(sf)) \ Rows(sf, d)}

\* the handler ending an empty scan without marking the analysis complete
AfterScanHanging ==
    /\ pc = "scanned"
    /\ IF scanned_files = <<>>
       THEN /\ pc' = "idle"
            /\ UNCHANGED analysis_completed
            /\ UNCHANGED classifyVars
       ELSE /\ pc' = "dispatch"
            /\ dispatch_i' = 1
            /\ futures' = <<>>
            /\ file_info_map' = <<>>
            /\ analyzed_files_temp' = <<>>
            /\ collected' = {}
            /\ UNCHANGED analysis_completed
    /\ UNCHANGED <<fsVars, argVars, walkVars, scans, prev_result, uiVars,
                   scanned_files, scan_completed, selected_files, space_liberated>>

\* lines 335-350: nothing found ends the run; otherwise the stage starts
AfterScan ==
    /\ pc = "scanned"
    /\ IF scanned_files = <<>>
       THEN /\ analysis_completed' = TRUE
            /\ pc' = "idle"
            /\ UNCHANGED classifyVars
       ELSE /\ pc' = "dispatch"
            /\ dispatch_i' = 1
            /\ futures' = <<>>
            /\ file_info_map' = <<>>
            /\ analyzed_files_temp' = <<>>
            /\ collected' = {}
            /\ UNCHANGED analysis_completed
    /\ UNCHANGED <<fsVars, argVars, walkVars, scans, prev_result, uiVars,
                   scanned_files, scan_completed, selected_files, space_liberated>>

\* One iteration of the dispatch loop (lines 356-367), or its end.
Dispatch ==
    /\ pc = "dispatch"
    /\ IF dispatch_i > Len(scanned_files)
       THEN /\ pc' = "collect"
            /\ UNCHANGED <<dispatch_i, futures, file_info_map>>
       ELSE /\ dispatch_i' = dispatch_i + 1
            /\ pc' = pc
            /\ IF ~Exists(scanned_files[dispatch_i].path)
               THEN UNCHANGED <<futures, file_info_map>>
               ELSE /\ futures' = Append(futures,
                                     [path |-> scanned_files[dispatch_i].path,
                                      state |-> "queued",
                                      response |-> Raised,
                                      result |-> [suggestion |-> <<>>, color_code |-> None]])
                    /\ file_info_map' = Append(file_info_map, dispatch_i)
    /\ UNCHANGED <<fsVars, argVars, walkVars, scans, prev_result, analyzed_files_temp,
                   collected, uiVars, sessionVars>>

Running == {k \in 1..Len(futures) : futures[k].state = "running"}
Queued == {k \in 1..Len(futures) : futures[k].state = "queued"}

\* a pool that starts a thread for every task, whatever the number running
WorkerStartUnbounded ==
    /\ pc \in {"dispatch", "collect"}
    /\ Queued # {}
    /\ LET k == CHOOSE q \in Queued : \A r \in Queued : q <= r
       IN futures' = [futures EXCEPT ![k].state = "running"]
    /\ UNCHANGED <<fsVars, pc, argVars, walkVars, scans, prev_result, dispatch_i,
                   file_info_map, analyzed_files_temp, collected, uiVars, sessionVars>>

\* A worker thread of the pool takes the oldest queued task and calls the oracle.
WorkerStart ==
    /\ pc \in {"dispatch", "collect"}
    /\ Queued # {}
    /\ Cardinality(Running) < MAX_WORKERS
    /\ LET k == CHOOSE q \in Queued : \A r \in Queued : q <= r
       IN futures' = [futures EXCEPT ![k].state = "running"]
    /\ UNCHANGED <<fsVars, pc, argVars, walkVars, scans, prev_result, dispatch_i,
                   file_info_map, analyzed_files_temp, collected, uiVars, sessionVars>>

\* The oracle answers (or fails) with one of `responses` and
\* get_file_safety_suggestion returns.
Finish(responses) ==
    /\ pc \in {"dispatch", "collect"}
    /\ \E k \in Running, response \in responses :
          futures' = [futures EXCEPT ![k] =
                         [@ EXCEPT !.state = "done",
                                   !.response = response,
                                   !.result = get_file_safety_suggestion(response)]]
    /\ UNCHANGED <<fsVars, pc, argVars, walkVars, scans, prev_result, dispatch_i,
                   file_info_map, analyzed_files_temp, collected, uiVars, sessionVars>>

\* the as_completed loop attaching a result to the entry at the position of its
\* arrival instead of the entry the future was submitted for
CollectByArrival ==
    /\ pc = "collect"
    /\ \E k \in 1..Len(futures) :
          /\ futures[k].state = "done" /\ k \notin collected
          /\ LET idx == file_info_map[Cardinality(collected) + 1]
                 annotated == [scanned_files[idx] EXCEPT
                                  !.ai_suggestion = futures[k].result.suggestion,
                                  !.color_code = futures[k].result.color_code]
             IN /\ scanned_files' = [scanned_files EXCEPT ![idx] = annotated]
                /\ analyzed_files_temp' = Append(analyzed_files_temp, annotated)
          /\ collected' = collected \cup {k}
    /\ UNCHANGED <<fsVars, pc, argVars, walkVars, scans, prev_result, dispatch_i,
                   futures, file_info_map, uiVars, scan_completed,
                   analysis_completed, selected_files, space_liberated>>

\* One iteration of the as_completed loop (lines 370-384): any finished future
\* not yet yielded; its file_info is annotated in place and appended.
Collect ==
    /\ pc = "collect"
    /\ \E k \in 1..Len(futures) :
          /\ futures[k].state = "done" /\ k \notin collected
          /\ LET idx == file_info_map[k]
                 annotated == [scanned_files[idx] EXCEPT
                                  !.ai_suggestion = futures[k].result.suggestion,
                                  !.color_code = futures[k].result.color_code]
             IN /\ scanned_files' = [scanned_files EXCEPT ![idx] = annotated]
                /\ analyzed_files_temp' = Append(analyzed_files_temp, annotated)
          /\ collected' = collected \cup {k}
    /\ UNCHANGED <<fsVars, pc, argVars, walkVars, scans, prev_result, dispatch_i,
                   futures, file_info_map, uiVars, scan_completed,
                   analysis_completed, selected_files, space_liberated>>

\* lines 386-390: the loop is over, the list is stored, the script reruns
FinishAnalysis ==
    /\ pc = "collect"
    /\ collected = 1..Len(futures)
    /\ scanned_files' = analyzed_files_temp
    /\ analysis_completed' = TRUE
    /\ pc' = "idle"
    /\ selected_files' = DisplayPass(analyzed_files_temp, selected_files, disk)
    /\ rendered' = Rows(analyzed_files_temp, disk)
    /\ UNCHANGED <<fsVars, argVars, walkVars, scans, prev_result, classifyVars,
                   messages, scan_completed, space_liberated>>

WorkerFinish == Finish(ClassifyResponses)

NextClassify ==
    Vanish \/ AfterScan \/ Dispatch \/ WorkerStart \/ WorkerFinish \/ Collect
        \/ FinishAnalysis

SpecClassify == InitClassify /\ [][NextClassify]_vars

\* The stage over the records of a scan started at /developer (the start path
\* itself is not tested against the exclusion rules): more records than the pool
\* has workers, and an oracle that always gives the same well-formed answer.
PoolFile(i) == PathJoin(pDeveloper, PoolFileName(i))

InitPool ==
    /\ \E n \in 1..MaxPoolFiles :
          /\ file_list = [i \in 1..n |-> NewFileInfo(PoolFile(i), 11 * MB + 1)]
          /\ scanned_files = file_list
          /\ num_files = n
          /\ total_files_scanned = n
    /\ disk = [f \in AllFiles |-> FixedDisk(f)]
    /\ denied_dirs = {}
    /\ cancel_requested = FALSE
    /\ pc = "scanned"
    /\ start_path = pDeveloper /\ min_size_mb = 10
    /\ gemini_model = "configured"
    /\ walk_stack = <<>> /\ root = pDeveloper /\ dirs = <<>> /\ dirs_to_skip = <<>>
    /\ files = <<>>
    /\ scans = 1 /\ prev_result = [known |-> FALSE, value |-> <<>>]
    /\ InitClassifyLocals
    /\ messages = <<>> /\ rendered = {}
    /\ scan_completed = TRUE
    /\ analysis_completed = FALSE
    /\ selected_files = {}
    /\ space_liberated = 0

WorkerFinishWell == Finish({WellFormed("Green")})

NextPool ==
    AfterScan \/ Dispatch \/ WorkerStart \/ WorkerFinishWell \/ Collect \/ FinishAnalysis

SpecPool == InitPool /\ [][NextPool]_vars
\* ------------------------------------- properties of the classification stage
\* the ScanResult that get_biggest_files handed to the stage
Input == ScanResult(file_list, num_files)

\* the stage has returned and stored its list
Analysed == pc = "idle" /\ analysis_completed /\ scans > 0 /\ Input # <<>>

\* the entries the dispatch loop skipped because their file was gone
Skipped == {p \in Paths(Input) : \A k \in 1..Len(futures) : futures[k].path # p}

\* the oracle was invoked for path p
Invoked(p) == \E k \in 1..Len(futures) : futures[k].path = p /\ futures[k].state # "queued"

\* The stage over one record, with an oracle that may answer any category text
\* of up to MaxWords words and any of the reason texts.
CategoryWords == {"Red", "RED", "red", "Orange", "Yellow", "Green", "GREEN", "Blue",
                  "Evergreen"}

\* n words, one blank between two words
RECURSIVE Phrases(_)
Phrases(n) ==
    IF n = 1 THEN {<<w>> : w \in CategoryWords}
    ELSE {ph \o <<" ", w>> : ph \in Phrases(n - 1), w \in CategoryWords}

CategoryTexts == UNION {Phrases(n) : n \in 1..MaxWords}

ReasonTexts ==
    { <<"test">>, <<"old", " ", "cache">>, <<"Red">>,
      <<"test", " ">>, <<" ", "test">>, <<" ">> }

\* the answer "Color: c" followed by "Reason: r"
Answer(c, r) == Text(<<<<"Color:", " ">> \o c, <<"Reason:", " ">> \o r>>)

ParseResponses ==
    {Answer(c, r) : c \in CategoryTexts, r \in ReasonTexts}
        \cup { Raised,
               Text(<<<<"Color:", " ", "Green", " ", "Red">>>>),
               Text(<<<<"Reason:", " ", "test">>, <<"Color:", " ", "Green", " ", "Red">>>>),
               Text(<<<<"Color:", " ", "Green", " ", "Color:", " ", "Red">>,
                      <<"Reason:", " ", "test">>>>) }

InitParse == InitClassify /\ Len(scanned_files) = 1

WorkerFinishAny == Finish(ParseResponses)

NextParse ==
    AfterScan \/ Dispatch \/ WorkerStart \/ WorkerFinishAny \/ Collect \/ FinishAnalysis

SpecParse == InitParse /\ [][NextParse]_vars

\* C12: at every moment of the stage at most MAX_WORKERS oracle invocations are in
\* flight, however many entries were dispatched and in whatever order the
\* invocations end.
C12_InFlightBounded ==
    Cardinality(Running) <= MAX_WORKERS

\* C12 witness: MAX_WORKERS invocations are in flight while a further dispatched
\* entry waits for a worker.
C12_Witness ==
    /\ Cardinality(Running) = MAX_WORKERS
    /\ Queued # {}

\* C1 as claimed: whatever the completion order, the list stored back into
\* scanned_files lists the entries in the rank order of the input ScanResult.
C1_RankOrderKept ==
    Analysed =>
        \A i, j \in 1..Len(scanned_files) :
            i < j => IndexOfPath(Input, scanned_files[i].path)
                        < IndexOfPath(Input, scanned_files[j].path)

\* C2 as claimed: an entry whose file was gone at dispatch is never sent to the
\* oracle and is still returned, annotated; the returned list has exactly the
\* paths of the input ScanResult.
C2_VanishedEntryKept ==
    Analysed =>
        /\ \A p \in Skipped :
              /\ ~Invoked(p)
              /\ \E i \in 1..Len(scanned_files) :
                    scanned_files[i].path = p /\ scanned_files[i].ai_suggestion # NoText
        /\ Paths(scanned_files) = Paths(Input)

\* the file of path p is not on disk
Gone(p) == disk[p].status = "absent"

\* a step of the dispatch loop over one entry
DispatchStep ==
    /\ pc = "dispatch" /\ pc' = "dispatch"
    /\ dispatch_i <= Len(scanned_files)
    /\ dispatch_i' = dispatch_i + 1

\* C2 amended: an entry whose file is gone when the dispatch loop reaches it gets
\* no oracle invocation (and only such an entry gets none), and it is left out of
\* the returned list: the list has exactly the paths of the input ScanResult
\* whose file existed at dispatch.
C2_VanishedEntryDropped ==
    [][/\ DispatchStep => (futures' = futures <=> Gone(scanned_files[dispatch_i].path))
       /\ Analysed' =>
             /\ Paths(scanned_files') = Paths(Input') \ Skipped'
             /\ \A p \in Skipped' : ~Invoked(p)' /\ Gone(p)'
             /\ \A p \in Paths(Input') \ Skipped' : Invoked(p)']_vars

\* C2 witness: the stage returned a list from which an entry whose file had
\* vanished is missing, next to an entry that was classified.
C2_Witness ==
    /\ Analysed
    /\ Skipped # {}
    /\ scanned_files # <<>>

\* the words of the first line that starts with the marker
WordsAfter(t, marker) ==
    IF LinesWith(t, marker) = {} THEN <<>>
    ELSE SelectSeq(Tail(FirstLineWith(t, marker)), LAMBDA w : w # " ")

ColourWords(t) == {c \in {"red", "orange", "yellow", "green"} :
                      \E i \in 1..Len(WordsAfter(t, "Color:")) :
                          c \in ColoursIn(Lower(WordsAfter(t, "Color:")[i]))}

\* the invocation failed: it raised, or its answer lacks the colour line or the
\* reason line (malformed), or names none of the four colours (unparseable)
OracleFailed(response) ==
    \/ response.raised
    \/ WordsAfter(response.text, "Reason:") = <<>>
    \/ ColourWords(response.text) = {}

\* C3: when the stage has returned, every dispatched entry is in the output; an
\* entry whose invocation failed is orange with a non-empty reason, every other
\* entry carries the colour and the reason of its own answer; and the stage is
\* never stuck before it returns.
C3_FailuresBecomeOrange ==
    /\ pc \in {"scanned", "dispatch", "collect"} =>
          ENABLED (AfterScan \/ Dispatch \/ WorkerStart \/ WorkerFinish \/ Collect
                      \/ FinishAnalysis)
    /\ Analysed =>
          /\ Len(scanned_files) = Len(futures)
          /\ \A k \in 1..Len(futures) :
                \E i \in 1..Len(scanned_files) :
                    /\ scanned_files[i].path = futures[k].path
                    /\ IF OracleFailed(futures[k].response)
                       THEN /\ scanned_files[i].color_code = "orange"
                            /\ scanned_files[i].ai_suggestion # NoText
                            /\ Len(scanned_files[i].ai_suggestion) > 0
                       ELSE /\ {scanned_files[i].color_code}
                                  = ColourWords(futures[k].response.text)
                            /\ scanned_files[i].ai_suggestion
                                  = WordsAfter(futures[k].response.text, "Reason:")

\* C3 witness: the stage returned one entry whose invocation raised, one whose
\* answer was unparseable, or malformed, next to one classified green.
C3_Witness ==
    /\ Analysed
    /\ \E k1, k2 \in 1..Len(futures) :
          /\ OracleFailed(futures[k1].response)
          /\ futures[k2].response = WellFormed("Green")
          /\ \E i \in 1..Len(scanned_files) :
                scanned_files[i].path = futures[k2].path
                    /\ scanned_files[i].color_code = "green"

\* the category text of an answer: the words that follow "Color:" on the first
\* line starting with it, up to a further "Color:" on that line
RECURSIVE UpToMarker(_)
UpToMarker(ws) ==
    IF ws = <<>> \/ Head(ws) = "Color:" THEN <<>> ELSE <<Head(ws)>> \o UpToMarker(Tail(ws))

CategoryOf(t) == UpToMarker(WordsAfter(t, "Color:"))

\* the colours its words name, in the order of the text
NamedColours(t) ==
    LET named == SelectSeq(CategoryOf(t), LAMBDA w : ColoursIn(Lower(w)) # {})
    IN [i \in 1..Len(named) |-> CHOOSE c \in ColoursIn(Lower(named[i])) : TRUE]

\* an answer with a reason whose category text names more than one colour
NamesSeveral(response) ==
    /\ ~response.raised
    /\ WordsAfter(response.text, "Reason:") # <<>>
    /\ Cardinality(Range(NamedColours(response.text))) > 1

\* the entry that the stage returned for future k
EntryOf(k) == scanned_files[CHOOSE i \in 1..Len(scanned_files) :
                               scanned_files[i].path = futures[k].path]

Caution(c) == CASE c = "red" -> 1 [] c = "orange" -> 2 [] c = "yellow" -> 3 [] c = "green" -> 4

MostCautious(S) == CHOOSE c \in S : \A d \in S : Caution(c) <= Caution(d)

Levels == {"Red", "Orange", "Yellow", "Green"}

LevelOf(L) ==
    CASE L = "Red" -> "red"
      [] L = "Orange" -> "orange"
      [] L = "Yellow" -> "yellow"
      [] L = "Green" -> "green"

\* C14 as claimed: for every level L and every non-empty reason text r, the answer
\* "Color: L" / "Reason: r" gives the entry the level L and the reason r exactly.
C14_WellFormedExact ==
    Analysed =>
        \A k \in 1..Len(futures), L \in Levels, r \in ReasonTexts :
            futures[k].response = Answer(<<L>>, r) =>
                /\ EntryOf(k).color_code = LevelOf(L)
                /\ EntryOf(k).ai_suggestion = r

\* a reason text that neither starts nor ends with white space
Trimmed(r) == r # <<>> /\ r[1] # " " /\ r[Len(r)] # " "

\* C14 amended: the same for every non-empty reason text r that neither starts
\* nor ends with white space.
C14_TrimmedExact ==
    Analysed =>
        \A k \in 1..Len(futures), L \in Levels, r \in ReasonTexts :
            (futures[k].response = Answer(<<L>>, r) /\ Trimmed(r)) =>
                /\ EntryOf(k).color_code = LevelOf(L)
                /\ EntryOf(k).ai_suggestion = r

\* C14 witness: the stage returned a yellow entry with the reason of its answer,
\* a reason of several words.
C14_Witness ==
    /\ Analysed
    /\ \E k \in 1..Len(futures) :
          /\ futures[k].response = Answer(<<"Yellow">>, <<"old", " ", "cache">>)
          /\ EntryOf(k).color_code = "yellow"
          /\ EntryOf(k).ai_suggestion = <<"old", " ", "cache">>
\* ------------------------------------------------- selection and trash
\* the assignment `=` in place of `+=`
AccumulateAssigning(total, deleted_size) == deleted_size

\* the invocations issued for path p
IssuedFor(p) == {k \in 1..Len(futures) : futures[k].path = p}

\* the entry e carries what the invocation k returned
Carries(e, k) ==
    LET r == get_file_safety_suggestion(futures[k].response)
    IN e.ai_suggestion = r.suggestion /\ e.color_code = r.color_code

\* the positions of path p in the sequence s
PositionsOf(s, p) == {i \in 1..Len(s) : s[i].path = p}

\* C23: whatever the order in which the oracle invocations start, finish and are
\* collected, every entry that has been annotated carries the result of the one
\* invocation issued for its own path, every collected invocation has annotated
\* exactly one entry, and after the stage every dispatched entry appears exactly
\* once in scanned_files, with that result.
C23_OwnResultOnce ==
    /\ pc \in {"dispatch", "collect"} \/ Analysed =>
          /\ Len(analyzed_files_temp) = Cardinality(collected)
          /\ \A j \in 1..Len(analyzed_files_temp) :
                LET e == analyzed_files_temp[j] IN
                /\ PositionsOf(analyzed_files_temp, e.path) = {j}
                /\ \E k \in collected : IssuedFor(e.path) = {k} /\ Carries(e, k)
          /\ \A k \in collected :
                Cardinality(PositionsOf(analyzed_files_temp, futures[k].path)) = 1
    /\ Analysed =>
          /\ \A k \in 1..Len(futures) :
                \E i \in 1..Len(scanned_files) :
                    /\ PositionsOf(scanned_files, futures[k].path) = {i}
                    /\ Carries(scanned_files[i], k)
          /\ Len(scanned_files) = Len(futures)

\* C23 witness: two invocations that returned different results were collected
\* in the reverse of the order of their dispatch, and the stage is over.
C23_Witness ==
    /\ Analysed
    /\ Len(futures) >= 2
    /\ futures[1].result # futures[2].result
    /\ scanned_files[1].path = futures[2].path
    /\ Carries(scanned_files[1], 2) /\ ~Carries(scanned_files[1], 1)

\* st.session_state.space_liberated += ... (lines 449 and 508)
Accumulate(total, deleted_size) == total + deleted_size

\* what happens to one trash attempt: send2trash succeeds ("ok") or raises
\* ("fail"), or the file is deleted between the existence check and stat ("raced")
Fates == {"ok", "fail", "raced"}

\* delete_file_to_trash returning the size recorded at scan time
delete_file_to_trash_scan_size(file_path, d, fate, recorded) ==
    IF d[file_path].status = "absent"
    THEN [success |-> FALSE, kind |-> "not_found", path |-> file_path, freed |-> 0]
    ELSE IF fate = "fail"
    THEN [success |-> FALSE, kind |-> "error", path |-> file_path, freed |-> 0]
    ELSE [success |-> TRUE, kind |-> "moved", path |-> file_path, freed |-> recorded]

\* delete_file_to_trash reporting the recorded size also when the file is gone
delete_file_to_trash_sized(file_path, d, fate, recorded) ==
    IF d[file_path].status = "absent"
    THEN [success |-> FALSE, kind |-> "not_found", path |-> file_path, freed |-> recorded]
    ELSE IF fate = "fail"
    THEN [success |-> FALSE, kind |-> "error", path |-> file_path, freed |-> 0]
    ELSE [success |-> TRUE, kind |-> "moved", path |-> file_path,
          freed |-> d[file_path].size]

\* delete_file_to_trash (lines 242-253) on the disk d; `recorded` is the size in
\* the FileRecord, which the function does not use
delete_file_to_trash(file_path, d, fate, recorded) ==
    IF d[file_path].status = "absent"
    THEN [success |-> FALSE, kind |-> "not_found", path |-> file_path, freed |-> 0]
    ELSE IF fate = "fail"
    THEN [success |-> FALSE, kind |-> "error", path |-> file_path, freed |-> 0]
    ELSE [success |-> TRUE, kind |-> "moved", path |-> file_path,
          freed |-> d[file_path].size]

\* the disk after the attempt r on it
AfterAttempt(d, r) == IF r.success THEN [d EXCEPT ![r.path].status = "absent"] ELSE d

\* the disk when stat runs: a raced file is gone by then
AtStat(d, p, fate) == IF fate = "raced" THEN [d EXCEPT ![p].status = "absent"] ELSE d

\* the loop ending at the first entry that is not moved
RECURSIVE BulkLoopAborting(_, _, _)
BulkLoopAborting(todo, fate, st) ==
    IF todo = <<>> THEN st
    ELSE LET p == Head(todo).path IN
         IF st.disk[p].status # "absent"
         THEN LET r == delete_file_to_trash(p, AtStat(st.disk, p, fate[p]), fate[p],
                                            Head(todo).size)
              IN IF r.success
                 THEN BulkLoopAborting(Tail(todo), fate,
                          [disk |-> AfterAttempt(st.disk, r),
                           selected |-> st.selected \ {p},
                           num_deleted |-> st.num_deleted + 1,
                           total_size_deleted |-> st.total_size_deleted + r.freed,
                           messages |-> Append(st.messages, r)])
                 ELSE [st EXCEPT !.disk = AtStat(st.disk, p, fate[p]),
                                 !.messages = Append(st.messages, r)]
         ELSE [st EXCEPT !.selected = st.selected \ {p},
                         !.messages = Append(st.messages,
                             [success |-> FALSE, kind |-> "gone", path |-> p,
                              freed |-> 0])]

\* The loop of the bulk handler (lines 432-446) over files_to_delete_info.
\* st = [disk, selected, num_deleted, total_size_deleted, messages]
RECURSIVE BulkLoop(_, _, _)
BulkLoop(todo, fate, st) ==
    IF todo = <<>> THEN st
    ELSE LET p == Head(todo).path IN
         IF st.disk[p].status # "absent"
         THEN LET r == delete_file_to_trash(p, AtStat(st.disk, p, fate[p]), fate[p],
                                            Head(todo).size)
              IN IF r.success
                 THEN BulkLoop(Tail(todo), fate,
                          [disk |-> AfterAttempt(st.disk, r),
                           selected |-> st.selected \ {p},
                           num_deleted |-> st.num_deleted + 1,
                           total_size_deleted |-> st.total_size_deleted + r.freed,
                           messages |-> Append(st.messages, r)])
                 ELSE BulkLoop(Tail(todo), fate,
                          [st EXCEPT !.disk = AtStat(st.disk, p, fate[p]),
                                     !.messages = Append(st.messages, r)])
         ELSE BulkLoop(Tail(todo), fate,
                  [st EXCEPT !.selected = st.selected \ {p},
                             !.messages = Append(st.messages,
                                 [success |-> FALSE, kind |-> "gone", path |-> p,
                                  freed |-> 0])])

\* [f for f in scanned_files if f['path'] in/not in a set]
RECURSIVE FilterByPath(_, _, _)
FilterByPath(sf, paths, keep_members) ==
    IF sf = <<>> THEN <<>>
    ELSE (IF (Head(sf).path \in paths) = keep_members THEN <<Head(sf)>> ELSE <<>>)
            \o FilterByPath(Tail(sf), paths, keep_members)

\* [f for j, f in enumerate(scanned_files) if j != i]
RemoveAt(sf, i) == SubSeq(sf, 1, i - 1) \o SubSeq(sf, i + 1, Len(sf))

Shown == pc = "idle" /\ scan_completed /\ analysis_completed /\ scanned_files # <<>>

\* on_change of select_chk_i (lines 489-493), then the script run it triggers
Toggle ==
    /\ Shown
    /\ \E i \in rendered :
          LET f == scanned_files[i].path
              toggled == IF f \notin selected_files THEN selected_files \cup {f}
                         ELSE selected_files \ {f}
          IN selected_files' = DisplayPass(scanned_files, toggled, disk)
    /\ rendered' = Rows(scanned_files, disk)
    /\ messages' = <<>>
    /\ UNCHANGED <<fsVars, pc, argVars, walkVars, scans, prev_result, classifyVars,
                   scanned_files, scan_completed, analysis_completed, space_liberated>>

\* "Move Selected Files to Trash" (lines 418-464) and the display that follows,
\* in the same run or after st.rerun()
BulkTrash ==
    /\ Shown
    /\ IF selected_files = {}
       THEN /\ messages' = <<>>
            /\ rendered' = Rows(scanned_files, disk)
            /\ UNCHANGED <<disk, scanned_files, selected_files, space_liberated>>
       ELSE LET files_to_delete_info == FilterByPath(scanned_files, selected_files, TRUE)
            IN \E fate \in [Paths(files_to_delete_info) -> Fates] :
                 LET st == BulkLoop(files_to_delete_info, fate,
                               [disk |-> disk, selected |-> selected_files,
                                num_deleted |-> 0, total_size_deleted |-> 0,
                                messages |-> <<>>])
                     sf == IF st.num_deleted > 0
                           THEN FilterByPath(scanned_files, st.selected, FALSE)
                           ELSE scanned_files
                 IN /\ space_liberated' = Accumulate(space_liberated, st.total_size_deleted)
                    /\ messages' = st.messages
                    /\ disk' = st.disk
                    /\ scanned_files' = sf
                    /\ selected_files' = DisplayPass(sf, st.selected, st.disk)
                    /\ rendered' = Rows(sf, st.disk)
    /\ UNCHANGED <<denied_dirs, cancel_requested, pc, argVars, walkVars, scans,
                   prev_result, classifyVars,
                   scan_completed, analysis_completed>>

\* "Move to Trash (name)" of row i (lines 504-516) inside the display loop
SingleTrash ==
    /\ Shown
    /\ \E i \in rendered, fate \in Fates :
          LET p == scanned_files[i].path IN
          IF disk[p].status = "absent"
          THEN \* the file went after the row was drawn: this run does not draw the
               \* row, it reports the file as gone (line 475) and attempts nothing
               /\ messages' = <<[success |-> FALSE, kind |-> "gone", path |-> p,
                                 freed |-> 0]>>
               /\ selected_files' = DisplayPass(scanned_files, selected_files, disk)
               /\ rendered' = Rows(scanned_files, disk)
               /\ UNCHANGED <<disk, scanned_files, space_liberated>>
          ELSE LET r == delete_file_to_trash(p, AtStat(disk, p, fate), fate,
                                             scanned_files[i].size)
                   d == AfterAttempt(AtStat(disk, p, fate), r)
                   sf == IF r.success THEN RemoveAt(scanned_files, i) ELSE scanned_files
                   sel == IF r.success THEN selected_files \ {p} ELSE selected_files
               IN /\ messages' = <<r>>
                  /\ disk' = d
                  /\ space_liberated' = IF r.success
                                         THEN Accumulate(space_liberated, r.freed)
                                         ELSE space_liberated
                  /\ scanned_files' = sf
                  /\ selected_files' = DisplayPass(sf, sel, d)
                  /\ rendered' = Rows(sf, d)
    /\ UNCHANGED <<denied_dirs, cancel_requested, pc, argVars, walkVars, scans,
                   prev_result, classifyVars,
                   scan_completed, analysis_completed>>

\* A file of the list is deleted outside the application between two runs.
VanishIdle ==
    /\ Shown
    /\ \E f \in Paths(scanned_files) :
          /\ disk[f].status = "file"
          /\ disk' = [disk EXCEPT ![f].status = "absent"]
    /\ UNCHANGED <<denied_dirs, cancel_requested, pc, argVars, walkVars, scans,
                   prev_result, classifyVars,
                   uiVars, sessionVars>>

\* The state after a scan and its analysis: n records of /Users, classified, all
\* rows rendered; the files may have changed size since the scan.
InitTrash ==
    /\ \E n \in 1..MaxUserFiles :
          /\ file_list = [i \in 1..n |-> NewFileInfo(EntryFile(i), 11 * MB + 1)]
          /\ scanned_files = [i \in 1..n |->
                [NewFileInfo(EntryFile(i), 11 * MB + 1) EXCEPT
                    !.ai_suggestion = <<"test">>, !.color_code = "green"]]
          /\ num_files = n
          /\ total_files_scanned = n
          /\ rendered = 1..n
    /\ \E sz \in [UserFiles -> SizeChoices] :
          disk = [f \in AllFiles |->
                    IF f \in UserFiles THEN [status |-> "file", size |-> sz[f]]
                    ELSE FixedDisk(f)]
    /\ denied_dirs = {}
    /\ cancel_requested = FALSE
    /\ pc = "idle"
    /\ start_path = pUsers /\ min_size_mb = 10
    /\ gemini_model = "configured"
    /\ walk_stack = <<>> /\ root = pUsers /\ dirs = <<>> /\ dirs_to_skip = <<>>
    /\ files = <<>>
    /\ scans = 1 /\ prev_result = [known |-> FALSE, value |-> <<>>]
    /\ InitClassifyLocals
    /\ messages = <<>>
    /\ scan_completed = TRUE
    /\ analysis_completed = TRUE
    /\ selected_files = {}
    /\ space_liberated = 0

NextTrash == Toggle \/ BulkTrash \/ SingleTrash \/ VanishIdle

SpecTrash == InitTrash /\ [][NextTrash]_vars

\* ------------------------------------------------------ the whole script
\* what the operator may have typed into "Directory to scan:": a directory of
\* the tree, or a path that is no directory
sNowhere == <<"n", "o", "n", "e">>
pNowhere == PathJoin(pRoot, sNowhere)
ScanPathInputs == {pUsers, pNowhere}

\* "Start Scan and AI Analysis" (lines 318-332): without a model the run writes
\* an error and stops; otherwise it resets the session state and calls
\* get_biggest_files with the sidebar's values.
StartHandler ==
    /\ pc = "idle" /\ scans < MaxScans
    /\ IF gemini_model = None
       THEN /\ messages' = <<[success |-> FALSE, kind |-> "no_model", path |-> <<>>,
                              freed |-> 0]>>
            /\ rendered' = {}
            /\ UNCHANGED <<pc, argVars, walkVars, scans, prev_result, sessionVars>>
       ELSE /\ \E scan_path_input \in ScanPathInputs :
                  BeginScan(scan_path_input, num_files, min_size_mb)
            /\ prev_result' = [known |-> TRUE, value |-> scanned_files]
    /\ UNCHANGED <<fsVars, classifyVars>>

\* A run of the script that no button started (any other widget changed): the
\* results are drawn again (lines 393-518).
Rerun ==
    /\ pc = "idle" /\ scan_completed /\ analysis_completed
    /\ rendered # Rows(scanned_files, disk) \/ messages # <<>>
    /\ selected_files' = DisplayPass(scanned_files, selected_files, disk)
    /\ rendered' = Rows(scanned_files, disk)
    /\ messages' = <<>>
    /\ UNCHANGED <<fsVars, pc, argVars, walkVars, scans, prev_result, classifyVars,
                   scanned_files, scan_completed, analysis_completed, space_liberated>>

\* The session after a first scan and its analysis, with or without a model
\* configured now.
InitApp ==
    /\ \E n \in 1..MaxUserFiles :
          /\ file_list = [i \in 1..n |-> NewFileInfo(EntryFile(i), 11 * MB + 1)]
          /\ scanned_files = [i \in 1..n |->
                [NewFileInfo(EntryFile(i), 11 * MB + 1) EXCEPT
                    !.ai_suggestion = <<"test">>, !.color_code = "green"]]
          /\ num_files = n
          /\ total_files_scanned = n
          /\ rendered = 1..n
    /\ disk = [f \in AllFiles |-> FixedDisk(f)]
    /\ denied_dirs = {}
    /\ cancel_requested = FALSE
    /\ pc = "idle"
    /\ start_path = pUsers /\ min_size_mb = 10
    /\ gemini_model \in {"configured", None}
    /\ walk_stack = <<>> /\ root = pUsers /\ dirs = <<>> /\ dirs_to_skip = <<>>
    /\ files = <<>>
    /\ scans = 1 /\ prev_result = [known |-> FALSE, value |-> <<>>]
    /\ InitClassifyLocals
    /\ messages = <<>>
    /\ scan_completed = TRUE
    /\ analysis_completed = TRUE
    /\ selected_files = {}
    /\ space_liberated = 0

NextApp ==
    \/ StartHandler \/ Rerun
    \/ WalkDir \/ ScanFile \/ FinishScan
    \/ AfterScan \/ Dispatch \/ WorkerStart \/ WorkerFinishWell \/ Collect \/ FinishAnalysis
    \/ Toggle \/ BulkTrash \/ SingleTrash \/ VanishIdle

SpecApp == InitApp /\ [][NextApp]_vars

\* One press of the start button followed to its end: the session has seen all
\* but the last of the scans of a behaviour; files may vanish between the scan
\* and their dispatch, and the oracle gives any answer or fails.
InitRun ==
    /\ \E n \in 1..MaxUserFiles :
          /\ file_list = [i \in 1..n |-> NewFileInfo(EntryFile(i), 11 * MB + 1)]
          /\ scanned_files = [i \in 1..n |->
                [NewFileInfo(EntryFile(i), 11 * MB + 1) EXCEPT
                    !.ai_suggestion = <<"test">>, !.color_code = "green"]]
          /\ num_files = n
          /\ total_files_scanned = n
          /\ rendered = 1..n
    /\ disk = [f \in AllFiles |-> FixedDisk(f)]
    /\ denied_dirs = {}
    /\ cancel_requested = FALSE
    /\ pc = "idle"
    /\ start_path = pUsers /\ min_size_mb = 10
    /\ gemini_model \in {"configured", None}
    /\ walk_stack = <<>> /\ root = pUsers /\ dirs = <<>> /\ dirs_to_skip = <<>>
    /\ files = <<>>
    /\ scans = MaxScans - 1 /\ prev_result = [known |-> FALSE, value |-> <<>>]
    /\ InitClassifyLocals
    /\ messages = <<>>
    /\ scan_completed = TRUE
    /\ analysis_completed = TRUE
    /\ selected_files = {}
    /\ space_liberated = 0

\* the steps of the script run that the button started (lines 318-390)
HandlerStep ==
    WalkDir \/ ScanFile \/ FinishScan \/ AfterScan \/ Dispatch \/ Collect \/ FinishAnalysis

NextRun == StartHandler \/ HandlerStep \/ Vanish \/ WorkerStart \/ WorkerFinish

\* The script run goes on while it has a step to take, the pool starts a queued
\* task when a worker is free, and every oracle invocation returns or fails.
\* (each of these steps changes the position of the run or of a task)
position == <<pc, walk_stack, files, dispatch_i, collected, futures>>

SpecRun ==
    /\ InitRun /\ [][NextRun]_vars
    /\ WF_position(HandlerStep) /\ WF_position(WorkerStart) /\ WF_position(WorkerFinish)

\* --------------------------------------- properties of selection and trash
Moved == {messages[i].path : i \in {j \in 1..Len(messages) : messages[j].success}}

RECURSIVE SumFreed(_)
SumFreed(ms) == IF ms = <<>> THEN 0 ELSE Head(ms).freed + SumFreed(Tail(ms))

\* C4 as claimed: a trash operation, bulk or single, leaves every path it moved to
\* trash absent from scanned_files and from selected_files, and adds exactly the
\* freed bytes of the moved entries to space_liberated.
C4_MovedPathsRemoved ==
    [][(BulkTrash \/ SingleTrash) =>
          /\ \A p \in Moved' : p \notin Paths(scanned_files') /\ p \notin selected_files'
          /\ space_liberated' = space_liberated + SumFreed(messages')]_vars

\* the messages of ms about a move that succeeded
MovedOnly(ms) == SelectSeq(ms, LAMBDA m : m.success)

\* a message that reports a failure, nothing freed, because the file does not exist
ReportsGone(m) == ~m.success /\ m.freed = 0 /\ m.kind \in {"gone", "not_found"}

\* C15: a trash operation, bulk or single, on an entry whose file has been deleted
\* since the scan reports for it a failure with no byte freed and a message that
\* the file does not exist, whether the file went before the operation or just
\* before the move itself, and adds nothing for it to space_liberated.
C15_GoneFileFails ==
    [][(BulkTrash \/ SingleTrash) =>
          /\ BulkTrash =>
                \A p \in selected_files \cap Paths(scanned_files) :
                    Gone(p) => \E j \in 1..Len(messages') :
                                  messages'[j].path = p /\ ReportsGone(messages'[j])
          /\ \A j \in 1..Len(messages') :
                (Gone(messages'[j].path) \/ messages'[j].kind = "not_found")
                    => ReportsGone(messages'[j])
          /\ space_liberated' = space_liberated + SumFreed(MovedOnly(messages'))]_vars

\* C15 witness: one bulk operation has reported a file as gone and moved another,
\* and only the moved file's bytes were added.
C15_Witness ==
    /\ \E i, j \in 1..Len(messages) :
          /\ ReportsGone(messages[i])
          /\ messages[j].success
    /\ space_liberated = SumFreed(MovedOnly(messages))
    /\ space_liberated > 0

\* the size that the scan recorded for path p
RecordedSize(p) == file_list[IndexOfPath(file_list, p)].size

RECURSIVE SumOnDisk(_, _)
SumOnDisk(ms, d) ==
    IF ms = <<>> THEN 0 ELSE d[Head(ms).path].size + SumOnDisk(Tail(ms), d)

\* C16: every move that succeeds, bulk or single, reports as freed the size the
\* file had on disk just before the move, whatever size the scan recorded, and
\* space_liberated grows by these on-disk sizes.
C16_FreedIsSizeOnDisk ==
    [][(BulkTrash \/ SingleTrash) =>
          /\ \A j \in 1..Len(messages') :
                messages'[j].success =>
                    /\ ~Gone(messages'[j].path)
                    /\ messages'[j].freed = disk[messages'[j].path].size
          /\ space_liberated'
                = space_liberated + SumOnDisk(MovedOnly(messages'), disk)]_vars

\* C16 witness: a file that had changed size since the scan was moved, and the
\* bytes freed are its size on disk, not the recorded one.
C16_Witness ==
    \E j \in 1..Len(messages) :
        /\ messages[j].success
        /\ messages[j].freed = disk[messages[j].path].size
        /\ messages[j].freed # RecordedSize(messages[j].path)
        /\ space_liberated >= messages[j].freed

\* the selected entries, in the order of the list
SelectedEntries == SelectSeq(scanned_files, LAMBDA f : f.path \in selected_files)

\* C17: a bulk operation reports exactly one outcome for each selected entry,
\* in the order of the list, whatever happened to the entries before it: every
\* entry is reached, and an entry is moved after an earlier one failed.
C17_EveryEntryOnce ==
    [][BulkTrash =>
          /\ Len(messages') = Len(SelectedEntries)
          /\ \A j \in 1..Len(SelectedEntries) :
                /\ messages'[j].path = SelectedEntries[j].path
                /\ messages'[j].success
                      => /\ ~Gone(SelectedEntries[j].path)
                          /\ disk'[SelectedEntries[j].path].status = "absent"]_vars

\* C17 witness: a bulk operation whose first entry failed with its file still on
\* disk, or was gone, has moved the entry after it.
C17_Witness ==
    /\ Len(messages) = 2
    /\ ~messages[1].success
    /\ messages[2].success /\ Gone(messages[2].path)

\* a message about an attempt that failed on a file that is still on disk
FailedStanding(m) == ~m.success /\ m.kind = "error"

\* the entry of a failed attempt stays in the list
FailedEntriesKept ==
    \A j \in 1..Len(messages') :
        FailedStanding(messages'[j]) => messages'[j].path \in Paths(scanned_files')

\* a failed attempt adds nothing to the space liberated
FailedFreeNothing ==
    /\ \A j \in 1..Len(messages') : ~messages'[j].success => messages'[j].freed = 0
    /\ space_liberated' = space_liberated + SumFreed(MovedOnly(messages'))

\* a bulk operation removes no entry that was not selected
UnselectedKept ==
    \A p \in Paths(scanned_files) \ selected_files : p \in Paths(scanned_files')

\* C22 as claimed: a trash attempt, bulk or single, that fails for an entry whose
\* file still exists leaves that entry in scanned_files and adds nothing for it to
\* space_liberated, whatever happens to the other entries of the operation; a
\* bulk operation never removes an entry that was not selected.
C22_FailedEntryKept ==
    [][(BulkTrash \/ SingleTrash) =>
          /\ FailedEntriesKept
          /\ FailedFreeNothing
          /\ BulkTrash => UnselectedKept]_vars

\* a step in which a new scan starts
NewScanStarts == pc = "idle" /\ pc' = "walk"

\* C18: from one state to the next space_liberated never decreases, except in
\* the step that starts a new scan, which sets it to 0; a start that is refused
\* leaves it alone.
C18_SpaceNeverDecreases ==
    [][/\ NewScanStarts => space_liberated' = 0
       /\ ~NewScanStarts => space_liberated' >= space_liberated]_vars

\* C18 witness: after a new scan had reset the counter (the list it replaced had
\* lost an entry to a move), a later move has raised it again.
C18_Witness ==
    /\ prev_result.known
    /\ Len(prev_result.value) < num_files
    /\ space_liberated > 0
    /\ \E j \in 1..Len(messages) : messages[j].success

\* C19 as claimed: a start command given without a model, or with a scan path
\* that is no existing directory, is refused before any scan begins: the run
\* writes an error, no walk or analysis starts, and scanned_files,
\* selected_files, space_liberated and the completion flags stay as they were.
C19_ConfigErrorRejected ==
    [][(StartHandler /\ (gemini_model = None \/ start_path' \notin AllDirs)) =>
          /\ pc' = "idle"
          /\ messages' # <<>>
          /\ UNCHANGED <<walkVars, classifyVars, sessionVars>>]_vars

\* C5 as claimed: every selected path is the path of an entry of scanned_files.
C5_SelectionWithinScan ==
    selected_files \subseteq Paths(scanned_files)

\* ------------------------------------------------- the run comes to its end
RunStarted == pc = "walk" /\ gemini_model = "configured"
RunComplete == pc = "idle" /\ scan_completed /\ analysis_completed

\* C24: every run that the start button began with a model configured reaches
\* scan_completed and analysis_completed, given that every oracle invocation
\* returns or fails: when the scan found nothing, when files vanished before
\* their dispatch, and when invocations failed.
C24_RunCompletes == RunStarted ~> RunComplete

\* C24 witness: a run is complete in which the scan found files, one of them had
\* vanished before its dispatch and the invocation for another failed.
C24_Witness ==
    /\ RunComplete /\ scans = MaxScans
    /\ Len(file_list) >= 2
    /\ Len(futures) < Len(file_list)
    /\ \E k \in 1..Len(futures) : futures[k].response = Raised
    /\ \E p \in Paths(file_list) : Gone(p)

====
